---- MODULE Spec2Model ----
(***************************************************************************)
(* Model of the software planet renderer (Jonialen/lab4-graficas).         *)
(*                                                                         *)
(*   Spec        the frame loop of main (src/src/main.rs)                  *)
(*   SpecMesh    the procedural mesh generators (src/src/mesh.rs)          *)
(*   SpecShader  smoothstep and RingShader.fragment (src/src/shaders.rs)   *)
(*   SpecFb      the depth-tested framebuffer (framebuffer.rs is not part  *)
(*               of the sources at hand; modelled from spec.md 4.1)        *)
(*                                                                         *)
(* Arithmetic convention: f32 quantities are modelled as exact numbers     *)
(* (integers in a fixed unit, or fractions <<num, den>>); the rounding of  *)
(* single-precision operations is not part of the model.  Non-finite       *)
(* results (NaN, +Inf, -Inf) are modelled explicitly where a division can  *)
(* produce them.                                                           *)
(***************************************************************************)
EXTENDS Integers, Sequences, FiniteSets, TLC

VARIABLES
    \* ---- frame loop (main.rs) ----
    pc,               \* position in main: "poll" | "clear" | "draw" | "upload" | "present" | "closed"
    frame,            \* number of loop iterations started (model counter)
    clock,            \* rl.get_time(), in clock ticks
    obj_sphere,       \* "Some" | "None": result of the OBJ import at startup
    use_obj_model,    \* bool
    scenes,           \* Vec<Vec<RenderObject>>: per scene, the (shader, mesh) list
    current_scene,    \* 0..4
    paused,           \* bool
    paused_time,      \* f32
    last_active_time, \* f32
    time,             \* the local `time` of the current iteration
    draw_idx,         \* position of the for loop over scenes[current_scene]
    calls,            \* history: framebuffer/renderer/texture calls of this iteration
    prev_time,        \* history: `time` of the previous iteration
    was_paused,       \* history: `paused` at the top of the current iteration
    frozen_at,        \* history: `time` of the iteration in which SPACE last paused (-1: never)
    key_m,            \* history: M was pressed in the current iteration
    keys_pressed,     \* history: highest of the keys 1..5 pressed in the current iteration (0: none), and whether several were
    \* ---- mesh generators (mesh.rs) ----
    mesh,             \* the last generated ObjMesh with the arguments it was built from
    \* ---- shader utilities (shaders.rs) ----
    sh,               \* the last shader evaluation: arguments and result
    \* ---- framebuffer (spec.md 4.1) ----
    color_buffer,     \* pixel -> color
    depth_buffer,     \* pixel -> depth
    fb_log,           \* history: fragments submitted since the last clear
    fb_last           \* history: the last depth_test_and_set call and its result

frameVars == <<pc, frame, clock, obj_sphere, use_obj_model, scenes, current_scene,
               paused, paused_time, last_active_time, time, draw_idx, calls,
               prev_time, was_paused, frozen_at, key_m, keys_pressed>>
fbVars == <<color_buffer, depth_buffer, fb_log, fb_last>>
vars == <<frameVars, mesh, sh, fbVars>>

\* ------------------------------------------------------------------------
\* Bounds of the model
\* ------------------------------------------------------------------------
MaxFrames == 3
MaxStep == 1

\* ------------------------------------------------------------------------
\* main.rs: startup
\* ------------------------------------------------------------------------

\* ObjMesh::load_from_obj: Err when tobj fails or the file holds no model.
LoadOutcomes == {"ok", "load_error", "no_models"}

LoadFromObj(outcome) ==
    IF outcome = "load_error" THEN "Err"
    ELSE IF outcome = "no_models" THEN "Err"
    ELSE "Ok"

\* let obj_sphere = match ObjMesh::load_from_obj(..) { Ok(mesh) => Some(mesh), Err(e) => None }
ObjSphereOf(outcome) == IF LoadFromObj(outcome) = "Ok" THEN "Some" ELSE "None"

\* get_sphere: the closure of main.rs:97-103.  "panic" would be the unwrap of None.
GetSphere(use_obj, objs) ==
    IF use_obj /\ objs = "Some"
    THEN (IF objs = "Some" THEN "obj" ELSE "panic")
    ELSE "procedural"

RenderObject(shader, m) == [shader |-> shader, mesh |-> m]

\* create_scenes: five scenes, in this order, each an ordered list of objects.
CreateScenes(use_obj, objs) ==
    LET current_sphere == GetSphere(use_obj, objs) IN
    << <<RenderObject("RockyPlanet", current_sphere)>>,
       <<RenderObject("GasGiant", current_sphere), RenderObject("RingShader", "ring")>>,
       <<RenderObject("CrystalPlanet", current_sphere)>>,
       <<RenderObject("LavaPlanet", current_sphere), RenderObject("MoonShader", current_sphere)>>,
       <<RenderObject("IcePlanet", current_sphere), RenderObject("MoonShader", current_sphere)>> >>

ShaderNames ==
    << "1: Planeta Rocoso", "2: Gigante Gaseoso + Anillos", "3: Planeta Cristalino",
       "4: Planeta de Lava + Luna", "5: Mundo Congelado + Luna" >>

\* scenes[current_scene] with the 0-based index of the source
SceneAt(s, i) == s[i + 1]

\* ------------------------------------------------------------------------
\* main.rs: one iteration of the frame loop
\* ------------------------------------------------------------------------

\* Variant: the pause flag is not consulted when the frame's time is computed.
FrameTimeIgnoresPause(p, ptime, last, crt) ==
    last + (crt - last)

\* let time = if paused { paused_time } else { last_active_time + (crt - last_active_time) };
FrameTime(p, ptime, last, crt) ==
    IF p THEN ptime ELSE last + (crt - last)

\* Variant: the five tests in the reverse order, so that the lowest key wins.
SceneKeysFirstWins(cur, keys) ==
    LET s5 == IF 5 \in keys THEN 4 ELSE cur
        s4 == IF 4 \in keys THEN 3 ELSE s5
        s3 == IF 3 \in keys THEN 2 ELSE s4
        s2 == IF 2 \in keys THEN 1 ELSE s3
        s1 == IF 1 \in keys THEN 0 ELSE s2
    IN s1

\* the highest-numbered key of a set of pressed keys, 0 for none
Highest(keys) == IF keys = {} THEN 0 ELSE CHOOSE k \in keys : \A j \in keys : j <= k

\* The five `if rl.is_key_pressed(KEY_n) { current_scene = n-1; }` in source order.
SceneKeys(cur, keys) ==
    LET s1 == IF 1 \in keys THEN 0 ELSE cur
        s2 == IF 2 \in keys THEN 1 ELSE s1
        s3 == IF 3 \in keys THEN 2 ELSE s2
        s4 == IF 4 \in keys THEN 3 ELSE s3
        s5 == IF 5 \in keys THEN 4 ELSE s4
    IN s5

\* Variant: the M toggle without the obj_sphere.is_some() test.
MeshTogglesUnguarded(keyM, objs) == keyM

\* if rl.is_key_pressed(KEY_M) && obj_sphere.is_some() { use_obj_model = !use_obj_model; .. }
MeshToggles(keyM, objs) == keyM /\ objs = "Some"

\* Variant: pausing stores the previous iteration's time instead of this one's.
PauseKeyStale(space, p, ptime, last, crt, t) ==
    LET afterKey ==
            IF space
            THEN IF p
                 THEN LET pause_duration == crt - ptime IN
                      [paused |-> FALSE, paused_time |-> ptime,
                       last_active_time |-> crt - pause_duration]
                 ELSE [paused |-> TRUE, paused_time |-> last, last_active_time |-> last]
            ELSE [paused |-> p, paused_time |-> ptime, last_active_time |-> last]
    IN IF ~afterKey.paused
       THEN [afterKey EXCEPT !.last_active_time = t]
       ELSE afterKey

\* The SPACE handler (main.rs:239-248) followed by `if !paused { last_active_time = time; }`.
\* Result: the new paused, paused_time and last_active_time.
PauseKey(space, p, ptime, last, crt, t) ==
    LET afterKey ==
            IF space
            THEN IF p
                 THEN LET pause_duration == crt - ptime IN
                      [paused |-> FALSE, paused_time |-> ptime,
                       last_active_time |-> crt - pause_duration]
                 ELSE [paused |-> TRUE, paused_time |-> t, last_active_time |-> last]
            ELSE [paused |-> p, paused_time |-> ptime, last_active_time |-> last]
    IN IF ~afterKey.paused
       THEN [afterKey EXCEPT !.last_active_time = t]
       ELSE afterKey

\* Lines 214-279: read the clock, compute `time`, handle the keys.
Poll(step, keys, keyM, space) ==
    /\ pc = "poll"
    /\ frame < MaxFrames
    /\ LET crt == clock + step
           t == FrameTime(paused, paused_time, last_active_time, crt)
           toggles == MeshToggles(keyM, obj_sphere)
           use2 == IF toggles THEN ~use_obj_model ELSE use_obj_model
           pk == PauseKey(space, paused, paused_time, last_active_time, crt, t)
       IN /\ clock' = crt
          /\ time' = t
          /\ current_scene' = SceneKeys(current_scene, keys)
          /\ use_obj_model' = use2
          /\ scenes' = IF toggles THEN CreateScenes(use2, obj_sphere) ELSE scenes
          /\ paused' = pk.paused
          /\ paused_time' = pk.paused_time
          /\ last_active_time' = pk.last_active_time
          /\ prev_time' = time
          /\ was_paused' = paused
          /\ frozen_at' = IF space /\ ~paused THEN t ELSE frozen_at
          /\ key_m' = keyM
          /\ keys_pressed' = [highest |-> Highest(keys), several |-> Cardinality(keys) > 1]
    /\ frame' = frame + 1
    /\ calls' = <<>>
    /\ draw_idx' = 0
    /\ pc' = "clear"
    /\ UNCHANGED <<obj_sphere, mesh, sh, fbVars>>

\* while !rl.window_should_close()
Close ==
    /\ pc = "poll"
    /\ pc' = "closed"
    /\ UNCHANGED <<frame, clock, obj_sphere, use_obj_model, scenes, current_scene,
                   paused, paused_time, last_active_time, time, draw_idx, calls,
                   prev_time, was_paused, frozen_at, key_m, keys_pressed,
                   mesh, sh, fbVars>>

\* framebuffer.clear(Color::BLACK);
Clear ==
    /\ pc = "clear"
    /\ calls' = Append(calls, [call |-> "clear"])
    /\ pc' = "draw"
    /\ UNCHANGED <<frame, clock, obj_sphere, use_obj_model, scenes, current_scene,
                   paused, paused_time, last_active_time, time, draw_idx,
                   prev_time, was_paused, frozen_at, key_m, keys_pressed,
                   mesh, sh, fbVars>>

RenderMeshCall(obj, t) ==
    [call |-> "render_mesh", shader |-> obj.shader, mesh |-> obj.mesh, time |-> t]

\* Variant: the scene's list walked back to front.
LoopObjectReversed(objs, i) == objs[Len(objs) - i]

\* The object the for loop hands to render_mesh at position i (0-based).
LoopObject(objs, i) == objs[i + 1]

\* One iteration of `for obj in &scenes[current_scene] { renderer.render_mesh(.., time) }`.
Draw ==
    /\ pc = "draw"
    /\ draw_idx < Len(SceneAt(scenes, current_scene))
    /\ calls' = Append(calls,
                  RenderMeshCall(LoopObject(SceneAt(scenes, current_scene), draw_idx), time))
    /\ draw_idx' = draw_idx + 1
    /\ UNCHANGED <<pc, frame, clock, obj_sphere, use_obj_model, scenes, current_scene,
                   paused, paused_time, last_active_time, time,
                   prev_time, was_paused, frozen_at, key_m, keys_pressed,
                   mesh, sh, fbVars>>

\* The for loop is exhausted.
DrawDone ==
    /\ pc = "draw"
    /\ draw_idx >= Len(SceneAt(scenes, current_scene))
    /\ pc' = "upload"
    /\ UNCHANGED <<frame, clock, obj_sphere, use_obj_model, scenes, current_scene,
                   paused, paused_time, last_active_time, time, draw_idx, calls,
                   prev_time, was_paused, frozen_at, key_m, keys_pressed,
                   mesh, sh, fbVars>>

\* texture.update_texture(framebuffer.as_bytes()): an Err is only printed.
Upload ==
    /\ pc = "upload"
    /\ calls' = Append(calls, [call |-> "update_texture"])
    /\ pc' = "present"
    /\ UNCHANGED <<frame, clock, obj_sphere, use_obj_model, scenes, current_scene,
                   paused, paused_time, last_active_time, time, draw_idx,
                   prev_time, was_paused, frozen_at, key_m, keys_pressed,
                   mesh, sh, fbVars>>

\* Lines 301-345: the overlay; reads shader_names[current_scene], then loops.
Present ==
    /\ pc = "present"
    /\ current_scene + 1 \in DOMAIN ShaderNames
    /\ pc' = "poll"
    /\ UNCHANGED <<frame, clock, obj_sphere, use_obj_model, scenes, current_scene,
                   paused, paused_time, last_active_time, time, draw_idx, calls,
                   prev_time, was_paused, frozen_at, key_m, keys_pressed,
                   mesh, sh, fbVars>>

\* ------------------------------------------------------------------------
\* mesh.rs: procedural meshes.  A vertex is modelled by the loop position that
\* produced it (its coordinates are not needed for the index structure);
\* indices are the u32 values pushed, 0-based as in the source.
\* ------------------------------------------------------------------------
MaxRings == 8
MaxSectors == 8
MaxSegments == 50

\* Variant: the inner vertex loop written `for s in 0..sectors` (exclusive).
SphereRowExclusive(r, sectors) ==
    [k \in 1..sectors |-> [ring |-> r, sector |-> k - 1]]

\* for s in 0..=sectors { vertices.push(..) }  (one ring of the sphere)
SphereRow(r, sectors) ==
    [k \in 1..(sectors + 1) |-> [ring |-> r, sector |-> k - 1]]

\* for r in 1..rings { <row r> }
RECURSIVE SphereRows(_, _, _)
SphereRows(r, rings, sectors) ==
    IF r >= rings THEN <<>>
    ELSE SphereRow(r, sectors) \o SphereRows(r + 1, rings, sectors)

\* vertices of create_sphere: north pole, the intermediate rings, south pole
SphereVertices(rings, sectors) ==
    <<[ring |-> 0, sector |-> 0]>> \o SphereRows(1, rings, sectors)
        \o <<[ring |-> rings, sector |-> 0]>>

\* for s in 0..sectors { push(0); push(1 + s); push(1 + s + 1); }
RECURSIVE NorthCap(_, _)
NorthCap(s, sectors) ==
    IF s >= sectors THEN <<>>
    ELSE <<0, 1 + s, 1 + s + 1>> \o NorthCap(s + 1, sectors)

\* the body of the band loops for one (r, s)
BandQuad(r, s, sectors) ==
    LET current == 1 + r * (sectors + 1) + s
        next == current + sectors + 1
    IN <<current, next, current + 1, current + 1, next, next + 1>>

\* for s in 0..sectors { <quad> }
RECURSIVE BandRow(_, _, _)
BandRow(r, s, sectors) ==
    IF s >= sectors THEN <<>>
    ELSE BandQuad(r, s, sectors) \o BandRow(r, s + 1, sectors)

\* Variant: the band loop written `for r in 0..(rings - 1)` (one band too many).
RECURSIVE SphereBandsOneMore(_, _, _)
SphereBandsOneMore(r, rings, sectors) ==
    IF r >= rings - 1 THEN <<>>
    ELSE BandRow(r, 0, sectors) \o SphereBandsOneMore(r + 1, rings, sectors)

\* for r in 0..(rings - 2) { <band row> }
RECURSIVE SphereBands(_, _, _)
SphereBands(r, rings, sectors) ==
    IF r >= rings - 2 THEN <<>>
    ELSE BandRow(r, 0, sectors) \o SphereBands(r + 1, rings, sectors)

\* for s in 0..sectors { push(last_ring_start + s); push(south_pole_index); push(last_ring_start + s + 1); }
RECURSIVE SouthCap(_, _, _, _)
SouthCap(s, sectors, south_pole_index, last_ring_start) ==
    IF s >= sectors THEN <<>>
    ELSE <<last_ring_start + s, south_pole_index, last_ring_start + s + 1>>
             \o SouthCap(s + 1, sectors, south_pole_index, last_ring_start)

\* ObjMesh::create_sphere(radius, rings, sectors)
CreateSphere(rings, sectors) ==
    LET vertices == SphereVertices(rings, sectors)
        south_pole_index == Len(vertices) - 1
        last_ring_start == south_pole_index - (sectors + 1)
        indices == NorthCap(0, sectors) \o SphereBands(0, rings, sectors)
                       \o SouthCap(0, sectors, south_pole_index, last_ring_start)
    IN [kind |-> "sphere", rings |-> rings, sectors |-> sectors,
        vertices |-> vertices, indices |-> indices]

\* for s in 0..=segments { vertices.push(..) }  (one circle of the ring)
RingCircle(ring, segments) ==
    [k \in 1..(segments + 1) |-> [ring |-> ring, sector |-> k - 1]]

\* for ring in 0..=1 { <circle> }
RingVertices(segments) == RingCircle(0, segments) \o RingCircle(1, segments)

\* the body of the index loop of create_ring
RingQuad(s, segments) ==
    LET i0 == s
        i1 == s + 1
        i2 == s + segments + 1
        i3 == s + segments + 2
    IN <<i0, i2, i1, i1, i2, i3>>

\* for s in 0..segments { <quad> }
RECURSIVE RingIndices(_, _)
RingIndices(s, segments) ==
    IF s >= segments THEN <<>>
    ELSE RingQuad(s, segments) \o RingIndices(s + 1, segments)

\* ObjMesh::create_ring(inner_radius, outer_radius, segments)
CreateRing(segments) ==
    [kind |-> "ring", segments |-> segments,
     vertices |-> RingVertices(segments), indices |-> RingIndices(0, segments)]

\* ------------------------------------------------------------------------
\* shaders.rs: smoothstep and RingShader.fragment.
\* A finite f32 is the exact fraction [k |-> "fin", n, d] (d > 0); the other
\* values a division can produce are [k |-> "nan"], [k |-> "inf", sign |-> 1 or -1].
\* Lengths are in units of 0.05 (so 1.3 is 26, 2.0 is 40, 2.2 is 44).
\* ------------------------------------------------------------------------
MaxEdge == 6
MaxCoord == 50
MaxNdl == 3

Fin(n, d) == [k |-> "fin", n |-> n, d |-> d]
NaN == [k |-> "nan"]
Inf(sign) == [k |-> "inf", sign |-> sign]

\* IEEE division n / d of two finite values given as integers of the same unit
FDiv(n, d) ==
    IF d = 0
    THEN (IF n = 0 THEN NaN ELSE IF n > 0 THEN Inf(1) ELSE Inf(-1))
    ELSE IF d > 0 THEN Fin(n, d) ELSE Fin(-n, -d)

\* Variant: the quotient used as it is, without .clamp(0.0, 1.0).
ClampMissing(q) == q

\* f32::clamp(0.0, 1.0): NaN stays NaN, everything else lands in [0, 1]
Clamp01(q) ==
    IF q.k = "nan" THEN NaN
    ELSE IF q.k = "inf" THEN (IF q.sign > 0 THEN Fin(1, 1) ELSE Fin(0, 1))
    ELSE IF q.n < 0 THEN Fin(0, q.d)
    ELSE IF q.n > q.d THEN Fin(q.d, q.d)
    ELSE q

\* t * t * (3.0 - 2.0 * t)
Hermite(t) ==
    IF t.k = "nan" THEN NaN
    ELSE IF t.k = "inf" THEN (IF t.sign > 0 THEN Inf(-1) ELSE Inf(1))
    ELSE Fin(t.n * t.n * (3 * t.d - 2 * t.n), t.d * t.d * t.d)

\* fn smoothstep(edge0, edge1, x)
Smoothstep(edge0, edge1, x) ==
    LET t == Clamp01(FDiv(x - edge0, edge1 - edge0))
    IN Hermite(t)

\* exact comparisons; every comparison with NaN is false
IsFin(a) == a.k = "fin"
FLt(a, b) == IsFin(a) /\ IsFin(b) /\ a.n * b.d < b.n * a.d
FLe(a, b) == IsFin(a) /\ IsFin(b) /\ a.n * b.d <= b.n * a.d
FEq(a, b) == IsFin(a) /\ IsFin(b) /\ a.n * b.d = b.n * a.d
FMul(a, b) ==
    IF IsFin(a) /\ IsFin(b) THEN Fin(a.n * b.n, a.d * b.d) ELSE NaN

\* (pos.x * pos.x + pos.z * pos.z).sqrt(), on the positions whose distance is a
\* whole number of units
Sqrt(n) == CHOOSE r \in 0..(2 * MaxCoord) : r * r = n
RingPositions ==
    {p \in (-MaxCoord..MaxCoord) \X (-MaxCoord..MaxCoord) :
        \E r \in 0..(2 * MaxCoord) : r * r = p[1] * p[1] + p[2] * p[2]}

\* noise(..): the hash ((..).sin() * 43758.5453).fract(); f32::fract keeps the
\* sign of its argument.  The sine is not computed: the hash is any of these
\* values, in hundredths.
NoiseValues == {-99, -50, 0, 50, 99}

\* normal.dot(&light_dir).abs(), in halves: any non-negative value
NdlValues == 0..MaxNdl

\* Variant: only the inner smoothstep window is applied.
RingAlphaInnerOnly(dist) ==
    Smoothstep(0, 1, dist - 26)

\* let alpha = smoothstep(0.0, 0.05, dist - 1.3) * smoothstep(2.2, 2.0, dist);
RingAlpha(dist) ==
    LET alpha_inner == Smoothstep(0, 1, dist - 26)
        alpha_outer == Smoothstep(44, 40, dist)
    IN FMul(alpha_inner, alpha_outer)

\* let band = (dist * 15.0).floor(); base_color = if band as i32 % 2 == 0 { color1 } else { color2 }
\* (channels in tenths)
RingBaseColor(dist) ==
    LET band == (dist * 15) \div 20
    IN IF band % 2 = 0 THEN <<8, 7, 6>> ELSE <<6, 5, 4>>

\* lit_color * alpha for one channel:
\* base * (0.8 + noise_val * 0.4) * (0.5 + n_dot_l * 0.5) * alpha
RingLitChannel(base, noise_val, n_dot_l, alpha) ==
    FMul(Fin(base * (200 + noise_val) * (2 + n_dot_l), 10 * 250 * 4), alpha)

BLACK == <<0, 0, 0>>

\* Color::from_vec3, one channel: clamp to [0, 1], scale to a byte
ColorChannel(v) ==
    IF ~IsFin(v) THEN 0
    ELSE IF v.n <= 0 THEN 0
    ELSE IF v.n >= v.d THEN 255
    ELSE (255 * v.n) \div v.d

\* RingShader.fragment(pos, normal, time)
RingFragment(x, z, noise_val, n_dot_l) ==
    LET dist_from_center == Sqrt(x * x + z * z)
        base_color == RingBaseColor(dist_from_center)
        alpha == RingAlpha(dist_from_center)
        color == IF FLt(alpha, Fin(3, 10))
                 THEN BLACK
                 ELSE [c \in 1..3 |->
                          ColorChannel(RingLitChannel(base_color[c], noise_val, n_dot_l, alpha))]
    IN [fn |-> "ring", x |-> x, z |-> z, noise |-> noise_val, ndl |-> n_dot_l,
        dist |-> dist_from_center, alpha |-> alpha, color |-> color]

\* ------------------------------------------------------------------------
\* shaders.rs: RockyPlanet.fragment.  Heights (normalized_pos.y) are in tenths,
\* color channels in tenths.  The turbulence, crater and diffuse factors
\* scale crater_color; they do not enter base_color or specular.
\* ------------------------------------------------------------------------
HeightValues == -10..10

\* normal.dot(&half_vec), in whole units
NdhValues == {-1, 0, 1}

\* the band names of the comments on the four branches of base_color
RockyBand(height) ==
    IF height > 4 THEN "mountain"
    ELSE IF height > 0 THEN "land"
    ELSE IF height > -3 THEN "coast"
    ELSE "ocean"

\* let base_color = if height > 0.4 {..} else if height > 0.0 {..} else if height > -0.3 {..} else {..}
RockyBaseColor(height) ==
    IF height > 4 THEN <<7, 5, 3>>
    ELSE IF height > 0 THEN <<4, 6, 3>>
    ELSE IF height > -3 THEN <<8, 7, 5>>
    ELSE <<1, 3, 6>>

OceanColor == <<1, 3, 6>>

\* f32::powf for a whole exponent
RECURSIVE Pow(_, _)
Pow(b, e) == IF e = 0 THEN 1 ELSE b * Pow(b, e - 1)

\* let specular = if height < 0.0 { normal.dot(&half_vec).max(0.0).powf(32.0) * 0.4 } else { 0.0 };
RockySpecular(height, ndh) ==
    IF height < 0
    THEN Fin(4 * Pow(IF ndh > 0 THEN ndh ELSE 0, 32), 10)
    ELSE Fin(0, 1)

\* RockyPlanet.fragment(pos, normal, _time): the base color and the specular
\* term that is added to every channel of the final color
RockyFragment(height, ndh) ==
    [fn |-> "rocky", height |-> height, ndh |-> ndh,
     band |-> RockyBand(height),
     base_color |-> RockyBaseColor(height),
     specular |-> RockySpecular(height, ndh)]

\* ------------------------------------------------------------------------
\* shaders.rs: GasGiant.fragment, the latitude bands.  Latitudes
\* (normalized_pos.y, in [-1, 1]) are in twelfths.
\* ------------------------------------------------------------------------
LatitudeValues == -12..12

\* let band = ((latitude + 1.0) * 0.5 * band_count).floor();   band_count = 12.0
GasBand(latitude) == ((latitude + 12) * 6) \div 12

\* band_colors, channels in tenths
BandColors == << <<9, 7, 5>>, <<8, 5, 3>>, <<7, 4, 2>>, <<6, 3, 2>> >>

\* band as usize % band_colors.len()   (`as usize` saturates a negative float to 0)
GasBandIndex(band) == (IF band < 0 THEN 0 ELSE band) % Len(BandColors)

\* GasGiant.fragment(pos, normal, time): the band and its base color
GasGiantFragment(latitude) ==
    LET band == GasBand(latitude)
        index == GasBandIndex(band)
    IN [fn |-> "gas", latitude |-> latitude, band |-> band, index |-> index,
        base_color |-> BandColors[index + 1]]

\* ------------------------------------------------------------------------
\* shaders.rs: noise.  The sine is not computed: the argument of fract, the
\* product (..).sin() * 43758.5453, is any value of a grid of hundredths
\* around zero, of either sign as the sine is.
\* ------------------------------------------------------------------------
MaxProduct == 250

SineProducts == (-MaxProduct)..MaxProduct

\* f32::trunc, in hundredths: the integer part, rounded toward zero
Trunc(v) == IF v >= 0 THEN (v \div 100) * 100 ELSE -(((-v) \div 100) * 100)

\* f32::fract: self - self.trunc(), which keeps the sign of self
Fract(v) == v - Trunc(v)

\* fn noise(x, y, z), given the product it takes the fractional part of
Noise(product) == Fract(product)

\* the factors built from the hash, in ten-thousandths:
\* 0.8 + noise_val * 0.4 (RingShader), turb * 0.4 (GasGiant), 0.9 + detail * 0.2 (MoonShader)
RingNoiseFactor(noise_val) == 8000 + noise_val * 40
GasTurbFactor(turb) == turb * 40
MoonDetailFactor(detail) == 9000 + detail * 20

\* ------------------------------------------------------------------------
\* shaders.rs: CrystalPlanet hue and hsv_to_rgb.  time and normalized_pos.y
\* are in tenths, hue_shift in thousandths, 2*PI is 6.283; a hue is the
\* numerator of a fraction over TwoPiMilli and a colour channel the numerator
\* of a fraction over 100 * TwoPiMilli (s = 0.7 and v = 0.9 are the call's).
\* ------------------------------------------------------------------------
TwoPiMilli == 6283

MaxTime == 130

TimeValues == 0..MaxTime

YValues == (-10)..10

\* the `%` of f32: the remainder of the division truncated toward zero, which
\* has the sign of the dividend
Rem(a, b) == IF a >= 0 THEN a % b ELSE -((-a) % b)

Abs(a) == IF a >= 0 THEN a ELSE -a

\* let hue_shift = time * 0.5 + normalized_pos.y * 2.0;
HueShift(t, y) == t * 50 + y * 200

\* let base_hue = (hue_shift % (2.0 * PI)) / (2.0 * PI);
BaseHue(t, y) == Rem(HueShift(t, y), TwoPiMilli)

\* hsv_to_rgb(h, 0.7, 0.9)
HsvToRgb(h) ==
    LET c == 63 * TwoPiMilli
        x == 63 * (TwoPiMilli - Abs(Rem(h * 6, 2 * TwoPiMilli) - TwoPiMilli))
        m == 27 * TwoPiMilli
        rgb == IF h * 6 < TwoPiMilli THEN <<c, x, 0>>
               ELSE IF h * 6 < 2 * TwoPiMilli THEN <<x, c, 0>>
               ELSE IF h * 6 < 3 * TwoPiMilli THEN <<0, c, x>>
               ELSE IF h * 6 < 4 * TwoPiMilli THEN <<0, x, c>>
               ELSE IF h * 6 < 5 * TwoPiMilli THEN <<x, 0, c>>
               ELSE <<c, 0, x>>
    IN <<rgb[1] + m, rgb[2] + m, rgb[3] + m>>

\* ------------------------------------------------------------------------
\* Framebuffer (spec.md 4.1): a color grid and a parallel depth grid.
\* Smaller depth is nearer; Far is the sentinel a cleared depth cell holds,
\* beyond every depth a fragment can have.
\* ------------------------------------------------------------------------
NumPixels == 2
MaxDepth == 2
MaxFragments == 2

Pixels == 0..(NumPixels - 1)
Depths == 0..MaxDepth
Far == MaxDepth + 1
FragmentColors == {"A", "B"}
ClearColors == {"BLACK"} \cup FragmentColors

\* Variant: every fragment passes the depth test.
DepthCloserAlways(depth, stored) == TRUE

\* the test of depth_test_and_set: strictly closer than the stored depth
DepthCloser(depth, stored) == depth < stored

\* Framebuffer::new / Framebuffer::clear(color): every color cell to `color`,
\* every depth cell to the far sentinel
Cleared(color) ==
    [colors |-> [p \in Pixels |-> color], depths |-> [p \in Pixels |-> Far]]

\* Framebuffer::clear(color)
FbClear(color) ==
    /\ color_buffer' = Cleared(color).colors
    /\ depth_buffer' = Cleared(color).depths
    /\ fb_log' = <<>>
    /\ fb_last' = [call |-> "clear", color |-> color]
    /\ UNCHANGED <<frameVars, mesh, sh>>

\* Framebuffer::depth_test_and_set(x, y, depth, color) -> bool
DepthTestAndSet(p, depth, color) ==
    /\ Len(fb_log) < MaxFragments
    /\ LET written == DepthCloser(depth, depth_buffer[p])
       IN /\ depth_buffer' = IF written THEN [depth_buffer EXCEPT ![p] = depth]
                                         ELSE depth_buffer
          /\ color_buffer' = IF written THEN [color_buffer EXCEPT ![p] = color]
                                         ELSE color_buffer
          /\ fb_last' = [call |-> "depth_test_and_set", pixel |-> p, depth |-> depth,
                         color |-> color, ret |-> written,
                         old_depth |-> depth_buffer[p], old_color |-> color_buffer[p]]
    /\ fb_log' = Append(fb_log, [pixel |-> p, depth |-> depth, color |-> color])
    /\ UNCHANGED <<frameVars, mesh, sh>>

\* ------------------------------------------------------------------------
\* Idle values of the parts a specification does not exercise
\* ------------------------------------------------------------------------
MeshIdle == [kind |-> "none"]
ShIdle == [fn |-> "none"]
FbIdle ==
    /\ color_buffer = <<>>
    /\ depth_buffer = <<>>
    /\ fb_log = <<>>
    /\ fb_last = [call |-> "none"]

FrameIdle ==
    /\ pc = "idle"
    /\ frame = 0
    /\ clock = 0
    /\ obj_sphere = "None"
    /\ use_obj_model = FALSE
    /\ scenes = CreateScenes(FALSE, "None")
    /\ current_scene = 0
    /\ paused = FALSE
    /\ paused_time = 0
    /\ last_active_time = 0
    /\ time = 0
    /\ draw_idx = 0
    /\ calls = <<>>
    /\ prev_time = 0
    /\ was_paused = FALSE
    /\ frozen_at = -1
    /\ key_m = FALSE
    /\ keys_pressed = [highest |-> 0, several |-> FALSE]

\* State of main when the loop is first entered (main.rs:65-212).
Init ==
    /\ pc = "poll"
    /\ frame = 0
    /\ clock = 0
    /\ \E outcome \in LoadOutcomes : obj_sphere = ObjSphereOf(outcome)
    /\ use_obj_model = FALSE
    /\ scenes = CreateScenes(FALSE, obj_sphere)
    /\ current_scene = 0
    /\ paused = FALSE
    /\ paused_time = 0
    /\ last_active_time = 0
    /\ time = 0
    /\ draw_idx = 0
    /\ calls = <<>>
    /\ prev_time = 0
    /\ was_paused = FALSE
    /\ frozen_at = -1
    /\ key_m = FALSE
    /\ keys_pressed = [highest |-> 0, several |-> FALSE]
    /\ mesh = MeshIdle
    /\ sh = ShIdle
    /\ FbIdle

Next ==
    \/ \E step \in 0..MaxStep, keys \in SUBSET (1..5), keyM \in BOOLEAN, space \in BOOLEAN :
           Poll(step, keys, keyM, space)
    \/ Close
    \/ Clear
    \/ Draw
    \/ DrawDone
    \/ Upload
    \/ Present

Spec == Init /\ [][Next]_vars

\* ------------------------------------------------------------------------
\* SpecMesh: the generators applied to every argument within the bounds
\* ------------------------------------------------------------------------
GenerateSphere(rings, sectors) ==
    /\ mesh' = CreateSphere(rings, sectors)
    /\ UNCHANGED <<frameVars, sh, fbVars>>

GenerateRing(segments) ==
    /\ mesh' = CreateRing(segments)
    /\ UNCHANGED <<frameVars, sh, fbVars>>

InitMesh ==
    /\ FrameIdle
    /\ mesh = MeshIdle
    /\ sh = ShIdle
    /\ FbIdle

NextMesh ==
    \/ \E rings \in 2..MaxRings, sectors \in 1..MaxSectors : GenerateSphere(rings, sectors)
    \/ \E segments \in 0..MaxSegments : GenerateRing(segments)

SpecMesh == InitMesh /\ [][NextMesh]_vars

\* ------------------------------------------------------------------------
\* SpecShader: the shader functions applied to every argument within the bounds
\* ------------------------------------------------------------------------
EdgeValues == 0..MaxEdge

EvalSmoothstep(edge0, edge1, x) ==
    /\ sh.fn = "none"
    /\ sh' = [fn |-> "smoothstep", edge0 |-> edge0, edge1 |-> edge1, x |-> x,
              divisor |-> edge1 - edge0,
              result |-> Smoothstep(edge0, edge1, x)]
    /\ UNCHANGED <<frameVars, mesh, fbVars>>

EvalRing(p, noise_val, n_dot_l) ==
    /\ sh.fn = "none"
    /\ sh' = RingFragment(p[1], p[2], noise_val, n_dot_l)
    /\ UNCHANGED <<frameVars, mesh, fbVars>>

EvalRocky(height, ndh) ==
    /\ sh.fn = "none"
    /\ sh' = RockyFragment(height, ndh)
    /\ UNCHANGED <<frameVars, mesh, fbVars>>

EvalGasGiant(latitude) ==
    /\ sh.fn = "none"
    /\ sh' = GasGiantFragment(latitude)
    /\ UNCHANGED <<frameVars, mesh, fbVars>>

EvalNoise(product) ==
    /\ sh.fn = "none"
    /\ sh' = [fn |-> "noise", product |-> product, result |-> Noise(product),
              ring_factor |-> RingNoiseFactor(Noise(product)),
              gas_factor |-> GasTurbFactor(Noise(product)),
              moon_factor |-> MoonDetailFactor(Noise(product))]
    /\ UNCHANGED <<frameVars, mesh, fbVars>>

EvalCrystal(t, y) ==
    /\ sh.fn = "none"
    /\ sh' = [fn |-> "crystal", time |-> t, y |-> y,
              base_hue |-> BaseHue(t, y), iridescent_color |-> HsvToRgb(BaseHue(t, y))]
    /\ UNCHANGED <<frameVars, mesh, fbVars>>

\* the call returns; the next one may start
ShReturn ==
    /\ sh.fn # "none"
    /\ sh' = ShIdle
    /\ UNCHANGED <<frameVars, mesh, fbVars>>

InitShader ==
    /\ FrameIdle
    /\ mesh = MeshIdle
    /\ sh = ShIdle
    /\ FbIdle

NextShader ==
    \/ /\ sh.fn = "none"
       /\ \E edge0 \in EdgeValues, edge1 \in EdgeValues, x \in EdgeValues :
              EvalSmoothstep(edge0, edge1, x)
    \/ /\ sh.fn = "none"
       /\ \E p \in RingPositions, noise_val \in NoiseValues, n_dot_l \in NdlValues :
              EvalRing(p, noise_val, n_dot_l)
    \/ /\ sh.fn = "none"
       /\ \E height \in HeightValues, ndh \in NdhValues : EvalRocky(height, ndh)
    \/ /\ sh.fn = "none"
       /\ \E latitude \in LatitudeValues : EvalGasGiant(latitude)
    \/ /\ sh.fn = "none"
       /\ \E product \in SineProducts : EvalNoise(product)
    \/ /\ sh.fn = "none"
       /\ \E t \in TimeValues, y \in YValues : EvalCrystal(t, y)
    \/ ShReturn

SpecShader == InitShader /\ [][NextShader]_vars

\* ------------------------------------------------------------------------
\* SpecFb: a framebuffer as Framebuffer::new leaves it, then any sequence of
\* clears and in-bounds fragments
\* ------------------------------------------------------------------------
InitFb ==
    /\ FrameIdle
    /\ mesh = MeshIdle
    /\ sh = ShIdle
    /\ color_buffer = Cleared("BLACK").colors
    /\ depth_buffer = Cleared("BLACK").depths
    /\ fb_log = <<>>
    /\ fb_last = [call |-> "clear", color |-> "BLACK"]

NextFb ==
    \/ \E color \in ClearColors : FbClear(color)
    \/ \E p \in Pixels, depth \in Depths, color \in FragmentColors :
           DepthTestAndSet(p, depth, color)

SpecFb == InitFb /\ [][NextFb]_vars

\* ------------------------------------------------------------------------
\* Properties of the frame loop
\* ------------------------------------------------------------------------
IsRender(c) == c.call = "render_mesh"
RenderCalls == {i \in DOMAIN calls : IsRender(calls[i])}
CurrentObjects == SceneAt(scenes, current_scene)

\* C1: in every iteration of the frame loop the calls are: clear exactly once and
\* first, then one render_mesh per object of scenes[current_scene] in list order,
\* then update_texture exactly once and last; no clear between two draw calls.
C1_FrameCallOrder ==
    /\ \A i \in DOMAIN calls : (calls[i].call = "clear") <=> (i = 1)
    /\ \A i \in DOMAIN calls :
           IsRender(calls[i]) <=> (2 <= i /\ i <= Len(CurrentObjects) + 1)
    /\ \A i \in RenderCalls :
           /\ calls[i].shader = CurrentObjects[i - 1].shader
           /\ calls[i].mesh = CurrentObjects[i - 1].mesh
    /\ \A i \in DOMAIN calls :
           (calls[i].call = "update_texture") <=> (i = Len(CurrentObjects) + 2)
    /\ Len(calls) <= Len(CurrentObjects) + 2
    /\ (pc = "present") => (Len(calls) = Len(CurrentObjects) + 2)
    /\ (pc = "upload") => (Len(calls) = Len(CurrentObjects) + 1)

\* A two-object scene fully drawn and uploaded.
C1_Witness ==
    /\ pc = "present"
    /\ Len(CurrentObjects) = 2
    /\ Len(calls) = 4
    /\ calls[3].shader = "MoonShader"

\* C2: from the iteration in which SPACE pauses up to and including the
\* iteration in which SPACE resumes, `time` and the time of every render_mesh
\* call equal the value computed in the pausing iteration, whatever the clock.
C2_FrozenWhilePaused ==
    (frame > 0 /\ (paused \/ was_paused)) =>
        /\ time = frozen_at
        /\ \A i \in RenderCalls : calls[i].time = frozen_at

\* The resuming iteration, with the clock ahead of the frozen value, has drawn.
C2_Witness ==
    /\ was_paused /\ ~paused
    /\ clock > frozen_at
    /\ pc = "present"
    /\ \E i \in RenderCalls : calls[i].time = frozen_at

C9_ImportFailureFallsBack ==
    /\ (obj_sphere = "None") =>
           /\ ~use_obj_model
           /\ \A s \in DOMAIN scenes : \A i \in DOMAIN scenes[s] :
                  scenes[s][i].mesh \in {"procedural", "ring"}
    /\ use_obj_model => (obj_sphere = "Some")
    /\ \A s \in DOMAIN scenes : \A i \in DOMAIN scenes[s] : scenes[s][i].mesh # "panic"
    /\ \A i \in RenderCalls : calls[i].mesh # "panic"

\* The import failed, M was pressed, and the frame was still drawn.
C9_Witness ==
    /\ obj_sphere = "None"
    /\ key_m
    /\ pc = "present"
    /\ \E i \in RenderCalls : calls[i].mesh = "procedural"

\* ------------------------------------------------------------------------
\* Properties of the generated meshes
\* ------------------------------------------------------------------------
IndicesInRange(m) ==
    \A i \in DOMAIN m.indices : 0 <= m.indices[i] /\ m.indices[i] < Len(m.vertices)

\* C4: every index of a generated mesh names an existing vertex; create_sphere
\* (rings >= 2, sectors >= 1) returns 2 + (rings-1)*(sectors+1) vertices and
\* create_ring (segments >= 1) returns 2*(segments+1) vertices.
C4_IndicesReferVertices ==
    /\ (mesh.kind = "sphere") =>
           /\ Len(mesh.vertices) = 2 + (mesh.rings - 1) * (mesh.sectors + 1)
           /\ IndicesInRange(mesh)
    /\ (mesh.kind = "ring" /\ mesh.segments >= 1) =>
           /\ Len(mesh.vertices) = 2 * (mesh.segments + 1)
           /\ IndicesInRange(mesh)

\* A sphere with intermediate bands whose largest index is its last vertex.
C4_Witness ==
    /\ mesh.kind = "sphere"
    /\ mesh.rings >= 3 /\ mesh.sectors >= 2
    /\ \E i \in DOMAIN mesh.indices : mesh.indices[i] = Len(mesh.vertices) - 1

\* C5: the index list has a length that is a multiple of 3: 6*sectors*(rings-1)
\* for create_sphere (rings >= 2, sectors >= 1) and 6*segments for create_ring.
C5_IndexCount ==
    /\ (mesh.kind = "sphere") =>
           /\ Len(mesh.indices) % 3 = 0
           /\ Len(mesh.indices) = 6 * mesh.sectors * (mesh.rings - 1)
    /\ (mesh.kind = "ring") =>
           /\ Len(mesh.indices) % 3 = 0
           /\ Len(mesh.indices) = 6 * mesh.segments

\* A sphere with at least two intermediate bands has been generated.
C5_Witness ==
    /\ mesh.kind = "sphere"
    /\ mesh.rings >= 4 /\ mesh.sectors >= 3
    /\ Len(mesh.indices) > 0

\* ------------------------------------------------------------------------
\* Properties of the shader functions
\* ------------------------------------------------------------------------
Zero == Fin(0, 1)
One == Fin(1, 1)

\* C7: RingShader.fragment returns Color::BLACK for every position whose
\* radial distance is below 1.3 (26 units) or above 2.2 (44 units), for every
\* normal and time, and a color other than BLACK at the midpoint radius 1.75
\* (35 units).
C7_RingCutoffs ==
    (sh.fn = "ring") =>
        /\ (sh.dist < 26 \/ sh.dist > 44) => sh.color = BLACK
        /\ (sh.dist = 35) => sh.color # BLACK

\* An off-axis position beyond the outer cutoff was shaded, with the darkest
\* inputs that would otherwise give a visible color.
C7_Witness ==
    /\ sh.fn = "ring"
    /\ sh.dist > 44
    /\ sh.x # 0 /\ sh.z # 0
    /\ sh.ndl > 0
    /\ sh.color = BLACK

C10_ZeroWidthGuarded ==
    (sh.fn = "smoothstep" /\ sh.edge0 = sh.edge1) =>
        /\ sh.divisor # 0
        /\ IsFin(sh.result)
        /\ FLe(Zero, sh.result) /\ FLe(sh.result, One)

\* ------------------------------------------------------------------------
\* Properties of the framebuffer
\* ------------------------------------------------------------------------
\* positions in fb_log of the fragments submitted to pixel p since the clear
SubmittedAt(p) == {i \in DOMAIN fb_log : fb_log[i].pixel = p}
Nearest(p) ==
    {i \in SubmittedAt(p) : \A j \in SubmittedAt(p) : fb_log[i].depth <= fb_log[j].depth}
FirstNearest(p) == CHOOSE i \in Nearest(p) : \A j \in Nearest(p) : i <= j

\* C6: after a clear, a pixel holds the color and depth of the nearest fragment
\* submitted to it, in whichever order the fragments came (of two fragments
\* A, B with depth(A) < depth(B) it holds A's); a call that is not strictly
\* closer returns false and changes neither the color nor the depth cell.
C6_NearestWins ==
    /\ \A p \in Pixels :
           /\ \A i \in SubmittedAt(p), j \in SubmittedAt(p) :
                  (Cardinality(SubmittedAt(p)) = 2 /\ fb_log[i].depth < fb_log[j].depth) =>
                      /\ color_buffer[p] = fb_log[i].color
                      /\ depth_buffer[p] = fb_log[i].depth
           /\ (SubmittedAt(p) # {}) =>
                  /\ depth_buffer[p] = fb_log[FirstNearest(p)].depth
                  /\ color_buffer[p] = fb_log[FirstNearest(p)].color
           /\ (SubmittedAt(p) = {}) => depth_buffer[p] = Far
    /\ (fb_last.call = "depth_test_and_set") =>
           /\ fb_last.ret <=> (fb_last.depth < fb_last.old_depth)
           /\ ~fb_last.ret =>
                  /\ depth_buffer[fb_last.pixel] = fb_last.old_depth
                  /\ color_buffer[fb_last.pixel] = fb_last.old_color

\* The far fragment came second (the moon behind the planet) and was rejected.
C6_Witness ==
    /\ Len(fb_log) = 2
    /\ fb_log[1].pixel = fb_log[2].pixel
    /\ fb_log[1].depth < fb_log[2].depth
    /\ fb_log[1].color # fb_log[2].color
    /\ fb_last.call = "depth_test_and_set" /\ ~fb_last.ret
    /\ color_buffer[fb_log[1].pixel] = fb_log[1].color


\* C11: in RockyPlanet.fragment the specular term is non-zero only for
\* fragments whose base color is the ocean color, and is exactly 0 for every
\* fragment of the mountain, land or coast band.
C11_SpecularOnlyOcean ==
    (sh.fn = "rocky") =>
        /\ (sh.band \in {"mountain", "land", "coast"}) => FEq(sh.specular, Fin(0, 1))
        /\ (~FEq(sh.specular, Fin(0, 1))) => sh.base_color = OceanColor


\* C12: for every latitude in [-1, 1] the band number of GasGiant.fragment is
\* one of 0..11 and the base color is band_colors[band mod 4], the index
\* being inside 0..3.
C12_TwelveBands ==
    (sh.fn = "gas") =>
        /\ sh.band \in 0..11
        /\ sh.index \in 0..3
        /\ sh.index = sh.band % 4
        /\ sh.base_color = BandColors[(sh.band % 4) + 1]


\* C13: noise returns a value in [0, 1) whatever the sign of the sine, so the
\* factors 0.8 + noise*0.4, turb*0.4 and 0.9 + detail*0.2 never fall below
\* 0.8, 0 and 0.9.
C13_NoiseUnitRange ==
    (sh.fn = "noise") =>
        /\ 0 <= sh.result /\ sh.result < 100
        /\ sh.ring_factor >= 8000
        /\ sh.gas_factor >= 0
        /\ sh.moon_factor >= 9000


\* C14: current_scene is always one of 0..4, scenes always has five entries
\* (also after the M key rebuilt it) and shader_names has five; when keys 1..5
\* are pressed in an iteration the highest-numbered one sets current_scene,
\* and when none is pressed current_scene keeps its value.
C14_SceneState ==
    /\ current_scene \in 0..4
    /\ Len(scenes) = 5
    /\ Len(ShaderNames) = 5
    /\ keys_pressed.highest > 0 => current_scene = keys_pressed.highest - 1

C14_NoKeyKeepsScene ==
    (pc = "poll" /\ pc' = "clear" /\ keys_pressed'.highest = 0) => current_scene' = current_scene

C14_SceneSelection == [](C14_SceneState) /\ [][C14_NoKeyKeepsScene]_vars

\* several keys were pressed in an iteration in which M also rebuilt the scenes
C14_Witness ==
    /\ pc = "clear"
    /\ keys_pressed.several /\ keys_pressed.highest = 3
    /\ key_m /\ obj_sphere = "Some"
    /\ current_scene = 2


\* C15: from one iteration to the next the animation time advances by at most
\* the wall-clock time elapsed between them, so that after a resume it goes on
\* from the value it was frozen at.
C15_AdvanceStep ==
    (pc = "poll" /\ pc' = "clear") => (time' - time <= clock' - clock)

C15_TimeAdvanceBounded == [][C15_AdvanceStep]_vars


\* C16: for time >= 0 and y in [-1, 1] the CrystalPlanet base_hue is in
\* [0, 1), and every channel of hsv_to_rgb(base_hue, 0.7, 0.9) is in
\* [0.27, 0.9].
C16_HueInUnitRange ==
    (sh.fn = "crystal") =>
        /\ 0 <= sh.base_hue /\ sh.base_hue < TwoPiMilli
        /\ \A i \in 1..3 : /\ 27 * TwoPiMilli <= sh.iridescent_color[i]
                            /\ sh.iridescent_color[i] <= 90 * TwoPiMilli

====
